---------------------------- MODULE Spec2Model ----------------------------
(***************************************************************************)
(* A model of src/vap_master.py: the top-level box scanner, the frame      *)
(* normalizer, the vapc descriptor handling and the pipeline that main()   *)
(* runs from argument checks to the finally clause.                        *)
(*                                                                         *)
(* Three specifications share the variables:                               *)
(*   Spec      one run of main();                                          *)
(*   SpecScan  list_top_level_atoms, one loop iteration per step, over     *)
(*             bounded byte buffers;                                       *)
(*   SpecNorm  list_png_frames and normalize_frames, one frame per step,   *)
(*             over bounded directory listings.                            *)
(***************************************************************************)
EXTENDS Integers, Sequences, FiniteSets, TLC

VARIABLES
    \* ---- list_top_level_atoms (lines 105-125) ----
    data,          \* the bytes read from the file (a buffer, see below)
    pos,           \* the cursor
    atoms,         \* the tags collected so far
    scan_pc,       \* "idle" | "loop" | "ret"
    scan_exit,     \* how the loop was left: "" | "cond" | "break116" | "break122"
    \* ---- main (lines 466-549) ----
    pc,            \* position of the run
    args,          \* parsed arguments and the environment main() checks
    src_dir,       \* listing of the --input directory, in iterdir order
    png_files,     \* result of list_png_frames
    idx,           \* loop index of normalize_frames
    frames,        \* normalized-frame directory: output index -> frame file
    work_dir,      \* "none" | "exists" | "removed"
    files,         \* path -> file content (NoFile when absent)
    vapc,          \* VapcParsed, or NoVapc before parsing
    success,       \* the local flag of main()
    err,           \* the error that ended the try block ("" when none)
    exit_code,     \* -1 while running, then the process exit status
    stderr,        \* messages written to the error stream
    calls          \* external commands run so far, each with its exit status

scan_vars == <<data, pos, atoms, scan_pc, scan_exit>>
main_vars == <<pc, args, src_dir, png_files, idx, frames, work_dir, files,
               vapc, success, err, exit_code, stderr, calls>>
vars == <<data, pos, atoms, scan_pc, scan_exit,
          pc, args, src_dir, png_files, idx, frames, work_dir, files,
          vapc, success, err, exit_code, stderr, calls>>

-----------------------------------------------------------------------------
(***************************************************************************)
(* Byte buffers.  A buffer is a sequence of chunks; a chunk is some        *)
(* literal bytes followed by `pad` zero bytes, so that a file of more than *)
(* a thousand bytes is a short value.  Positions are 0-based, as in the    *)
(* source.                                                                 *)
(***************************************************************************)
Chunk(lit, pad) == [lit |-> lit, pad |-> pad]

ChunkLen(c) == Len(c.lit) + c.pad

RECURSIVE BufLen(_)
BufLen(buf) == IF buf = <<>> THEN 0 ELSE ChunkLen(Head(buf)) + BufLen(Tail(buf))

RECURSIVE ByteAt(_, _)
ByteAt(buf, i) ==
    LET c == Head(buf) IN
    IF i < Len(c.lit) THEN c.lit[i + 1]
    ELSE IF i < ChunkLen(c) THEN 0
    ELSE ByteAt(Tail(buf), i - ChunkLen(c))

Min(a, b) == IF a < b THEN a ELSE b

\* data[a : b], Python slicing: cut at the end of the buffer
Slice(buf, a, b) ==
    LET e == Min(b, BufLen(buf)) IN
    IF e <= a THEN <<>> ELSE [k \in 1..(e - a) |-> ByteAt(buf, a + k - 1)]

\* Python integers are unbounded; TLC's are 32 bits wide.  A decoded size
\* saturates at SizeCap, which exceeds the length of every buffer of the model,
\* so every comparison and every cursor advance behaves as it does unbounded.
SizeCap == 1048576

RECURSIVE FromBytesAcc(_, _)
FromBytesAcc(bytes, acc) ==
    IF bytes = <<>> THEN acc
    ELSE FromBytesAcc(Tail(bytes), Min(acc * 256 + Head(bytes), SizeCap))

\* int.from_bytes(bytes, "big", signed=False)
from_bytes_big(bytes) == FromBytesAcc(bytes, 0)

\* The four-byte tags the source names, as latin1 code points.
TagFtyp == <<102, 116, 121, 112>>
TagMoov == <<109, 111, 111, 118>>
TagMdat == <<109, 100, 97, 116>>
TagVapc == <<118, 97, 112, 99>>
TagFree == <<102, 114, 101, 101>>

-----------------------------------------------------------------------------
(***************************************************************************)
(* list_top_level_atoms, lines 105-125.                                    *)
(***************************************************************************)
\* the loop condition, line 110
ScanCond(d, p) == p + 8 <= BufLen(d)

\* One iteration of the loop body, lines 111-124, from cursor p with tags a.
\* brk names the break taken ("" when the iteration ran to line 124).
ScanIterTagOnZeroDropped(d, p, a) ==
    LET size_total == BufLen(d)
        size32 == from_bytes_big(Slice(d, p, p + 4))
        atom_type == Slice(d, p + 4, p + 8)
    IN  IF size32 = 1 /\ p + 16 > size_total
        THEN [pos |-> p, atoms |-> a, brk |-> "break116"]
        ELSE LET header_size == IF size32 = 1 THEN 16 ELSE 8
                 atom_size == IF size32 = 1
                              THEN from_bytes_big(Slice(d, p + 8, p + 16))
                              ELSE size32
             IN  IF atom_size < header_size
                 THEN [pos |-> p, atoms |-> a, brk |-> "break122"]
                 ELSE [pos |-> p + atom_size, atoms |-> Append(a, atom_type),
                       brk |-> ""]

ScanIterStopBeforeOverrun(d, p, a) ==
    LET size_total == BufLen(d)
        size32 == from_bytes_big(Slice(d, p, p + 4))
        atom_type == Slice(d, p + 4, p + 8)
    IN  IF size32 = 1 /\ p + 16 > size_total
        THEN [pos |-> p, atoms |-> a, brk |-> "break116"]
        ELSE LET header_size == IF size32 = 1 THEN 16 ELSE 8
                 atom_size == IF size32 = 1
                              THEN from_bytes_big(Slice(d, p + 8, p + 16))
                              ELSE IF size32 = 0 THEN size_total - p
                              ELSE size32
             IN  IF atom_size < header_size \/ p + atom_size > size_total
                 THEN [pos |-> p, atoms |-> a, brk |-> "break122"]
                 ELSE [pos |-> p + atom_size, atoms |-> Append(a, atom_type),
                       brk |-> ""]

ScanIterNoSizeCheck(d, p, a) ==
    LET size_total == BufLen(d)
        size32 == from_bytes_big(Slice(d, p, p + 4))
        atom_type == Slice(d, p + 4, p + 8)
    IN  IF size32 = 1 /\ p + 16 > size_total
        THEN [pos |-> p, atoms |-> a, brk |-> "break116"]
        ELSE LET atom_size == IF size32 = 1
                              THEN from_bytes_big(Slice(d, p + 8, p + 16))
                              ELSE IF size32 = 0 THEN size_total - p
                              ELSE size32
             IN  [pos |-> p + atom_size, atoms |-> Append(a, atom_type), brk |-> ""]

ScanIter(d, p, a) ==
    LET size_total == BufLen(d)
        size32 == from_bytes_big(Slice(d, p, p + 4))
        atom_type == Slice(d, p + 4, p + 8)
    IN  IF size32 = 1 /\ p + 16 > size_total
        THEN [pos |-> p, atoms |-> a, brk |-> "break116"]
        ELSE LET header_size == IF size32 = 1 THEN 16 ELSE 8
                 atom_size == IF size32 = 1
                              THEN from_bytes_big(Slice(d, p + 8, p + 16))
                              ELSE IF size32 = 0 THEN size_total - p
                              ELSE size32
             IN  IF atom_size < header_size
                 THEN [pos |-> p, atoms |-> a, brk |-> "break122"]
                 ELSE [pos |-> p + atom_size, atoms |-> Append(a, atom_type),
                       brk |-> ""]

RECURSIVE ScanFrom(_, _, _)
ScanFrom(d, p, a) ==
    IF ~ScanCond(d, p) THEN a
    ELSE LET r == ScanIter(d, p, a)
         IN  IF r.brk # "" THEN r.atoms ELSE ScanFrom(d, r.pos, r.atoms)

\* the whole function: the tags of the file's top-level boxes
list_top_level_atoms(d) == ScanFrom(d, 0, <<>>)

InSeq(x, s) == \E i \in 1..Len(s) : s[i] = x

\* line 128-129
has_top_level_vapc(d) == InSeq(TagVapc, list_top_level_atoms(d))


\* lines 132-142; f is a file of the work area (NoFile when the path is absent)
MinSizeBytes == 1024

NoFile == [kind |-> "none"]

Mp4(d) == [kind |-> "mp4", data |-> d]

Exists(f) == f.kind # "none"

is_valid_mp4_NoMdatCheck(f) ==
    IF ~Exists(f) \/ BufLen(f.data) < MinSizeBytes THEN FALSE
    ELSE LET a == list_top_level_atoms(f.data)
         IN  IF a = <<>> THEN FALSE
             ELSE IF a[1] # TagFtyp /\ ~InSeq(TagMoov, a) THEN FALSE
             ELSE TRUE

is_valid_mp4(f) ==
    IF ~Exists(f) \/ BufLen(f.data) < MinSizeBytes THEN FALSE
    ELSE LET a == list_top_level_atoms(f.data)
         IN  IF a = <<>> THEN FALSE
             ELSE IF a[1] # TagFtyp /\ ~InSeq(TagMoov, a) THEN FALSE
             ELSE IF ~InSeq(TagMoov, a) \/ ~InSeq(TagMdat, a) THEN FALSE
             ELSE TRUE

\* lines 145-162: rc is the exit status of the probe, which is run only on a
\* structurally valid file
is_playable_mp4_IgnoreProbe(f, rc) == is_valid_mp4(f)

is_playable_mp4_ProbeOnly(f, rc) == rc = 0

is_playable_mp4(f, rc) == IF ~is_valid_mp4(f) THEN FALSE ELSE rc = 0

Call(tool, arg, rc) == [tool |-> tool, arg |-> arg, rc |-> rc]

\* the probe invocation is_playable_mp4 makes on path p holding f (none when
\* the file is not structurally valid: line 146 returns first)
ProbeCalls(f, p, rc) == IF is_valid_mp4(f) THEN <<Call("ffprobe", p, rc)>> ELSE <<>>

-----------------------------------------------------------------------------
(***************************************************************************)
(* SpecScan: the scanner over bounded buffers.                             *)
(***************************************************************************)
\* int(size).to_bytes(4, "big", signed=False), for sizes below 2^31
to_bytes4(n) == <<(n \div 16777216) % 256, (n \div 65536) % 256,
                  (n \div 256) % 256, n % 256>>

\* a box header declaring `size`, followed by `pay` payload bytes
Box(size, tag, pay) == Chunk(to_bytes4(size) \o tag, pay)

\* the 8 bytes of a 64-bit size below 2^31
to_bytes8(n) == <<0, 0, 0, 0>> \o to_bytes4(n)

ScanChunks ==
    { Box(8, TagMoov, 0),                                   \* exact, no payload
      Box(12, TagMdat, 4),                                  \* exact, payload
      Box(0, TagVapc, 4),                                   \* extends to the end
      Box(0, TagFree, 0),
      Chunk(to_bytes4(1) \o TagFtyp \o to_bytes8(16), 0),   \* 64-bit, exact
      Chunk(to_bytes4(1) \o TagMdat \o to_bytes8(24), 8),
      Chunk(to_bytes4(1) \o TagMoov \o to_bytes8(8), 0),    \* 64-bit size < 16
      Chunk(to_bytes4(1) \o TagVapc, 0),                    \* 64-bit header cut
      Box(7, TagFree, 0),                                   \* size < 8
      Box(40, TagMdat, 4),                                  \* overruns the end
      Box(12, TagMoov, 0),                                  \* payload missing
      Box(9, TagVapc, 1),                                   \* odd size
      Chunk(<<0, 0, 0>>, 0) }                               \* fewer than 8 bytes

MaxBoxes == 3

RECURSIVE SeqsUpTo(_, _)
SeqsUpTo(S, n) ==
    IF n = 0 THEN {<<>>}
    ELSE LET shorter == SeqsUpTo(S, n - 1)
         IN  shorter \cup {Append(s, x) : s \in shorter, x \in S}

ScanBuffers == SeqsUpTo(ScanChunks, MaxBoxes)

-----------------------------------------------------------------------------
(***************************************************************************)
(* Frame discovery, lines 47-56.  A file name is its stem (a sequence of   *)
(* characters) and its extension; a directory entry carries what the       *)
(* program reads of the file: whether it is a regular file, whether the    *)
(* PNG signature and IHDR chunk are in place, and the IHDR width/height.   *)
(***************************************************************************)
Name(stem, ext) == [stem |-> stem, ext |-> ext]

Entry(name, w, h) ==
    [name |-> name, is_file |-> TRUE, png_ok |-> TRUE, width |-> w, height |-> h]

Digits == <<"0", "1", "2", "3", "4", "5", "6", "7", "8", "9">>

IsDigit(c) == \E i \in 1..10 : Digits[i] = c

DigitVal(c) == (CHOOSE i \in 1..10 : Digits[i] = c) - 1

\* str.lower() on the extensions of the model
Lower(ext) == CASE ext = ".PNG" -> ".png" [] ext = ".Png" -> ".png" [] OTHER -> ext

\* the longest run of digits that ends the stem: group 1 of (\d+)\.png$
RECURSIVE TrailingDigits(_)
TrailingDigits(stem) ==
    IF stem = <<>> \/ ~IsDigit(stem[Len(stem)]) THEN <<>>
    ELSE Append(TrailingDigits(SubSeq(stem, 1, Len(stem) - 1)), stem[Len(stem)])

\* int() of a digit string
RECURSIVE IntOf(_)
IntOf(ds) ==
    IF ds = <<>> THEN 0
    ELSE IntOf(SubSeq(ds, 1, Len(ds) - 1)) * 10 + DigitVal(ds[Len(ds)])

\* lines 47-49
get_suffix(name) ==
    IF Lower(name.ext) = ".png" /\ TrailingDigits(name.stem) # <<>>
    THEN IntOf(TrailingDigits(name.stem))
    ELSE -1

\* list.sort(key=...): stable, ascending.  InsertByKey puts x after every
\* element whose key is not larger.
RECURSIVE InsertByKey(_, _)
InsertByKey(x, sorted) ==
    IF sorted = <<>> THEN <<x>>
    ELSE IF get_suffix(Head(sorted)) <= get_suffix(x)
         THEN <<Head(sorted)>> \o InsertByKey(x, Tail(sorted))
         ELSE <<x>> \o sorted

RECURSIVE SortBySuffix(_, _)
SortBySuffix(todo, done) ==
    IF todo = <<>> THEN done
    ELSE SortBySuffix(Tail(todo), InsertByKey(Head(todo), done))

\* lines 53-54: the names kept, in iterdir order
PngNames(listing) ==
    LET IsPng(e) == e.is_file /\ Lower(e.name.ext) = ".png"
        kept == SelectSeq(listing, LAMBDA e : IsPng(e) /\ get_suffix(e.name) # -1)
    IN  [i \in 1..Len(kept) |-> kept[i].name]

list_png_frames_Unsorted(listing) == PngNames(listing)

\* lines 52-56
list_png_frames(listing) == SortBySuffix(PngNames(listing), <<>>)

\* src_folder / frame_name: the entry of the listing with that name
EntryOf(listing, name) ==
    listing[CHOOSE i \in 1..Len(listing) : listing[i].name = name]

(***************************************************************************)
(* One frame of normalize_frames, lines 76-102: what the body does with    *)
(* the source frame e.  "link" is the symlink-or-copy of lines 82-85,      *)
(* "crop" the ffmpeg call of lines 87-100.                                 *)
(***************************************************************************)
FrameWidth == 1008
FrameHeight == 1334
FrameHeightTall == 1344

frame_step_AnyHeight(e) ==
    IF ~e.png_ok THEN "raise_png"
    ELSE IF e.width # FrameWidth THEN "raise_width"
    ELSE IF e.height = FrameHeight THEN "link"
    ELSE "crop"

frame_step(e) ==
    IF ~e.png_ok THEN "raise_png"
    ELSE IF e.width # FrameWidth THEN "raise_width"
    ELSE IF e.height = FrameHeight THEN "link"
    ELSE IF e.height = FrameHeightTall THEN "crop"
    ELSE "raise_height"

\* the file written at the output index: the source it comes from and its size
Linked(e) == [from |-> e.name, width |-> e.width, height |-> e.height]
Cropped(e) == [from |-> e.name, width |-> FrameWidth, height |-> FrameHeight]

-----------------------------------------------------------------------------
(***************************************************************************)
(* JSON values and the vapc descriptor, lines 165-227.  A value is a tag   *)
(* and a payload; a float is held in halves (25.0 is 50), which is exact.  *)
(***************************************************************************)
JNull == [t |-> "null", v |-> 0]
JBool(b) == [t |-> "bool", v |-> b]
JInt(n) == [t |-> "int", v |-> n]
JFloat(halves) == [t |-> "float", v |-> halves]
JList(s) == [t |-> "list", v |-> s]
JObj(f) == [t |-> "obj", v |-> f]
JStr(s) == [t |-> "str", v |-> s]
\* a file that is not JSON at all: json.load raises
JInvalid == [t |-> "invalid", v |-> 0]

\* dict.get(key)
Get(o, k) == IF k \in DOMAIN o.v THEN o.v[k] ELSE JNull

\* isinstance(obj, int): bool is a subclass of int
IsInstanceInt(j) == j.t \in {"int", "bool"}

\* lines 177-180: TRUE when _require_int returns
require_int_ok_BoolIsInt(j) == IsInstanceInt(j)

require_int_ok(j) == ~(j.t = "bool" \/ ~IsInstanceInt(j))

\* lines 183-188: TRUE when _require_float returns
require_float_ok(j) == IF j.t = "bool" THEN FALSE ELSE IsInstanceInt(j) \/ j.t = "float"

\* float(obj), in halves
FloatOf(j) == IF j.t = "float" THEN j.v ELSE 2 * j.v

\* float(obj) raises OverflowError on an integer beyond the largest float
\* (about 1.8e308).  FloatMax stands for that limit among the integers of the
\* model, which are 32 bits wide; a JSON integer may have any number of digits.
FloatMax == 1000000

float_overflows(j) == j.t = "int" /\ (j.v > FloatMax \/ j.v < -FloatMax)

Raised(msg) == [ok |-> FALSE, err |-> msg]

IntList4Ok(l) == \A i \in 1..4 : require_int_ok(l.v[i])

\* lines 200-227: the VapcParsed, or the error raised
parse_vapc_json(doc) ==
    IF doc.t = "invalid" THEN Raised("JSONDecodeError")
    ELSE IF doc.t # "obj" THEN Raised("Expected dict for vapc.json")
    ELSE LET info == Get(doc, "info") IN
    IF info.t # "obj" THEN Raised("Expected dict for vapc.json.info")
    ELSE LET f == Get(info, "f")
             fps == Get(info, "fps")
             a == Get(info, "aFrame")
             rgb == Get(info, "rgbFrame")
    IN  IF ~require_int_ok(f) THEN Raised("Expected int for vapc.json.info.f")
        ELSE IF ~require_float_ok(fps) THEN Raised("Expected number for vapc.json.info.fps")
        ELSE IF float_overflows(fps) THEN Raised("OverflowError")
        ELSE IF a.t # "list" THEN Raised("Expected list for vapc.json.info.aFrame")
        ELSE IF rgb.t # "list" THEN Raised("Expected list for vapc.json.info.rgbFrame")
        ELSE IF Len(a.v) # 4 \/ Len(rgb.v) # 4 THEN Raised("Invalid aFrame/rgbFrame")
        ELSE IF ~IntList4Ok(a) THEN Raised("Expected int for vapc.json.info.aFrame[i]")
        ELSE IF ~IntList4Ok(rgb) THEN Raised("Expected int for vapc.json.info.rgbFrame[i]")
        ELSE [ok |-> TRUE, vapc_json |-> doc, frame_count |-> f.v,
              fps |-> FloatOf(fps),
              a_frame |-> [i \in 1..4 |-> a.v[i].v],
              rgb_frame |-> [i \in 1..4 |-> rgb.v[i].v]]

NoVapc == [ok |-> FALSE, err |-> ""]

\* lines 243-246: TRUE when swap_video_regions raises before the compositor
invalid_frame_metadata_FramesOnly(v) == v.frame_count <= 0

invalid_frame_metadata(v) == v.frame_count <= 0 \/ v.fps <= 0

OutW == 2016
OutH == 1334
RgbDstX == 1008

\* round(fps), fps in halves: a tie goes to the even integer
RoundHalves(h) ==
    IF h % 2 = 0 THEN h \div 2
    ELSE IF ((h - 1) \div 2) % 2 = 0 THEN (h - 1) \div 2 ELSE (h + 1) \div 2

\* lines 247-263 and 278: what the compositor is told.  dur is the quotient
\* frame_count / fps, kept as numerator and denominator; a crop is
\* <<w, h, x, y>> as in crop=w:h:x:y, a destination is <<x, y>>.
filter_str(v) ==
    [dur_num |-> 2 * v.frame_count, dur_den |-> v.fps,
     canvas |-> <<OutW, OutH>>,
     alpha_crop |-> <<v.a_frame[3], v.a_frame[4], v.a_frame[1], v.a_frame[2]>>,
     rgb_crop |-> <<v.rgb_frame[3], v.rgb_frame[4], v.rgb_frame[1], v.rgb_frame[2]>>,
     alpha_dst |-> <<0, 0>>,
     rgb_dst |-> <<RgbDstX, 0>>,
     rate |-> RoundHalves(v.fps)]

\* the descriptor that keeps only the rewritten info
updated_json_InfoOnly(v) ==
    LET old == Get(v.vapc_json, "info").v
        new == [videoW |-> JInt(2016), videoH |-> JInt(1334),
                aFrame |-> JList(<<JInt(0), JInt(0), JInt(1008), JInt(1334)>>),
                rgbFrame |-> JList(<<JInt(1008), JInt(0), JInt(1008), JInt(1334)>>)]
    IN  JObj([k \in DOMAIN v.vapc_json.v |->
                 IF k = "info" THEN JObj(new) ELSE v.vapc_json.v[k]])

\* lines 299-307: the descriptor with the geometry of the swapped video
updated_json(v) ==
    LET old == Get(v.vapc_json, "info").v
        new == [videoW |-> JInt(2016), videoH |-> JInt(1334),
                aFrame |-> JList(<<JInt(0), JInt(0), JInt(1008), JInt(1334)>>),
                rgbFrame |-> JList(<<JInt(1008), JInt(0), JInt(1008), JInt(1334)>>)]
        info == [k \in DOMAIN old \cup DOMAIN new |->
                    IF k \in DOMAIN new THEN new[k] ELSE old[k]]
    IN  JObj([k \in DOMAIN v.vapc_json.v |->
                 IF k = "info" THEN JObj(info) ELSE v.vapc_json.v[k]])

\* the length of json.dumps(j, separators=(",", ":")) in bytes
RECURSIVE DigitsLen(_)
DigitsLen(n) ==
    IF n < 0 THEN 1 + DigitsLen(-n) ELSE IF n < 10 THEN 1 ELSE 1 + DigitsLen(n \div 10)

RECURSIVE DumpLen(_)
RECURSIVE DumpLenSeq(_)
RECURSIVE DumpLenKeys(_, _)
DumpLen(j) ==
    CASE j.t = "null" -> 4
      [] j.t = "bool" -> IF j.v THEN 4 ELSE 5
      [] j.t = "int" -> DigitsLen(j.v)
      [] j.t = "float" -> DigitsLen(j.v \div 2) + 2
      [] j.t = "str" -> Len(j.v) + 2
      [] j.t = "list" -> 2 + DumpLenSeq(j.v) + (IF Len(j.v) > 1 THEN Len(j.v) - 1 ELSE 0)
      [] j.t = "obj" -> 2 + DumpLenKeys(j.v, DOMAIN j.v)
                          + (IF Cardinality(DOMAIN j.v) > 1
                             THEN Cardinality(DOMAIN j.v) - 1 ELSE 0)
DumpLenSeq(s) == IF s = <<>> THEN 0 ELSE DumpLen(Head(s)) + DumpLenSeq(Tail(s))
DumpLenKeys(f, ks) ==
    IF ks = {} THEN 0
    ELSE LET k == CHOOSE x \in ks : TRUE
         IN  Len(k) + 3 + DumpLen(f[k]) + DumpLenKeys(f, ks \ {k})

\* the size field holding the payload length alone
create_vapc_atom_file_PayloadSize(j) ==
    LET size == DumpLen(j) IN <<Chunk(to_bytes4(size) \o TagVapc, size)>>

\* lines 230-233: the bytes of the atom file
create_vapc_atom_file(j) ==
    LET size == DumpLen(j) + 8 IN <<Chunk(to_bytes4(size) \o TagVapc, size - 8)>>

-----------------------------------------------------------------------------
(***************************************************************************)
(* The work area of a run.  Paths are relative to the temporary directory  *)
(* of line 499, except OutMp4, the --output path.                          *)
(***************************************************************************)
VapVideo == "vap_out/video.mp4"
VapJson == "vap_out/vapc.json"
VapMd5 == "vap_out/md5.txt"
FallbackVideo == "frames/output/video.mp4"
FallbackJson == "frames/output/vapc.json"
FallbackMd5 == "frames/output/md5.txt"
SwappedMp4 == "swapped.mp4"
VapcAtom == "vapc.atom"
NoVapcMp4 == "no_vapc.mp4"
FinalTmp == "final.mp4"
OutMp4 == "out_mp4"
\* where shutil.copy2 and shutil.move put a file when --output names an
\* existing directory: inside it, under the name of the source
OutDirVideo == "out_mp4/video.mp4"
OutDirFinal == "out_mp4/final.mp4"

Paths == {VapVideo, VapJson, VapMd5, FallbackVideo, FallbackJson, FallbackMd5,
          SwappedMp4, VapcAtom, NoVapcMp4, FinalTmp, OutMp4, OutDirVideo,
          OutDirFinal}

Json(doc) == [kind |-> "json", doc |-> doc]
Md5File == [kind |-> "md5"]
\* the atom file: its bytes, and the document its payload bytes spell
AtomFile(d, j) == [kind |-> "atom", data |-> d, payload |-> j]

\* Boxes of the containers the external tools are taken to write; the payload
\* bytes are never read by the program and only their number is kept.
BoxFtyp == Box(24, TagFtyp, 16)
BoxMoov == Box(600, TagMoov, 592)
BoxMdat == Box(700, TagMdat, 692)
BoxMdatLong == Box(900, TagMdat, 892)
BoxVapcOld == Box(120, TagVapc, 112)
BoxFree == Box(16, TagFree, 8)

VideoGood == <<BoxFtyp, BoxVapcOld, BoxMoov, BoxMdat>>
VideoNoMoov == <<BoxFtyp, BoxVapcOld, BoxMdat, BoxMdat>>
VideoFallback == <<BoxFtyp, BoxVapcOld, BoxMoov, BoxMdatLong>>
SwappedGood == <<BoxFtyp, BoxFree, BoxMoov, BoxMdat>>
SwappedStale == <<BoxFtyp, BoxVapcOld, BoxMoov, BoxMdat>>
SwappedNoMdat == <<BoxFtyp, BoxMoov, BoxFree, BoxFree>>
\* 900 bytes, with every box a final container needs
VideoSmall == <<BoxFtyp, BoxVapcOld, Box(300, TagMoov, 292), Box(456, TagMdat, 448)>>
\* 1224 bytes, ftyp first, moov, no mdat
VideoNoMdat == <<BoxFtyp, BoxMoov, BoxMoov>>
\* moov first and no ftyp
VideoMoovFirst == <<BoxMoov, BoxVapcOld, BoxMdat>>
\* bytes no box can be read from: the first size field is 4
Garbage == <<Chunk(<<0, 0, 0, 4>>, 1400)>>

\* descriptors the encoder is taken to write
InfoGood ==
    [f |-> JInt(50), fps |-> JFloat(50), videoW |-> JInt(1008), videoH |-> JInt(2668),
     aFrame |-> JList(<<JInt(0), JInt(0), JInt(1008), JInt(1334)>>),
     rgbFrame |-> JList(<<JInt(0), JInt(1334), JInt(1008), JInt(1334)>>)]
DocGood == JObj([v |-> JInt(2), info |-> JObj(InfoGood)])
DocIntFps == JObj([info |-> JObj([InfoGood EXCEPT !.fps = JInt(25)])])
DocZeroFrames == JObj([info |-> JObj([InfoGood EXCEPT !.f = JInt(0)])])
DocNegFps == JObj([info |-> JObj([InfoGood EXCEPT !.fps = JFloat(-1)])])
DocBoolFrames == JObj([info |-> JObj([InfoGood EXCEPT !.f = JBool(TRUE)])])
DocNoInfo == JObj([v |-> JInt(2)])

EncoderVideos == {NoFile, Mp4(VideoGood), Mp4(VideoNoMoov)}
EncoderJsons == {NoFile, Json(DocGood), Json(DocIntFps), Json(DocZeroFrames),
                 Json(DocNegFps), Json(DocBoolFrames), Json(DocNoInfo), Json(JInvalid)}
FallbackVideos == {NoFile, Mp4(VideoFallback)}
FallbackJsons == {NoFile, Json(DocIntFps)}
FallbackMd5s == {NoFile, Md5File}
SwapOutputs == {NoFile, Mp4(SwappedGood), Mp4(SwappedStale), Mp4(SwappedNoMdat)}

\* what mp4edit --remove vapc makes of a container: the other boxes
BoxTag(c) == SubSeq(c.lit, 5, 8)
RemoveVapc(d) == SelectSeq(d, LAMBDA c : BoxTag(c) # TagVapc)
RemoveOutputs(in) == {NoFile, Mp4(RemoveVapc(in.data)), Mp4(Garbage)}

\* what mp4edit --insert :atom makes: the atom ahead of the input's boxes, or
\* something else (the tool is external)
InsertOutputs(in, atom) ==
    {NoFile, Mp4(atom.data \o in.data), Mp4(in.data), Mp4(VideoSmall),
     Mp4(VideoNoMoov), Mp4(VideoNoMdat), Mp4(VideoMoovFirst), Mp4(Garbage)}

ExitCodes == {0, 1}

\* the messages of the source
ErrEncoder == "run VapBatch failed"
ErrNoVideo == "VapTool output missing video.mp4"
ErrNotPlayable == "Generated MP4 is not playable"
ErrNoJson == "VapTool output missing vapc.json"
ErrMetadata == "Invalid frame metadata in vapc info"
ErrSwap == "swap video regions failed"
ErrSwapped == "Swapped MP4 is not playable"
ErrLaunch == "FileNotFoundError: mp4edit"
ErrInsert == "insert updated vapc atom failed"
ErrFinalInvalid == "Final MP4 is invalid after vapc insert"
ErrFinalNoVapc == "Final MP4 missing top-level vapc after insert"
ErrFinalNoMoov == "Final MP4 missing moov atom after insert"
ErrFinalNotPlayable == "Final MP4 is not playable after vapc insert"
ErrOutNoVapc == "Final output missing vapc atom"
ErrIsDir == "IsADirectoryError: out_mp4"
MsgPreserved == "Work dir preserved for debugging"

-----------------------------------------------------------------------------
(***************************************************************************)
(* main(), lines 466-549, one action per step.                             *)
(***************************************************************************)
IdleScan == data = <<>> /\ pos = 0 /\ atoms = <<>> /\ scan_pc = "idle" /\ scan_exit = ""

Raise(msg) == pc' = "finally" /\ err' = msg
Goto(to) == pc' = to /\ err' = err

\* what no step after the work directory is created changes
Fixed == UNCHANGED <<args, src_dir, png_files, work_dir, success, exit_code,
                     stderr, data, pos, atoms, scan_pc, scan_exit>>

\* die(), lines 20-22
Die(msg) ==
    /\ pc' = "exited"
    /\ exit_code' = 2
    /\ stderr' = Append(stderr, msg)
    /\ UNCHANGED <<args, src_dir, png_files, idx, frames, work_dir, files, vapc,
                   success, err, calls, data, pos, atoms, scan_pc, scan_exit>>

\* lines 467-501: the checks before the try block, frame discovery, mkdtemp
MainStart ==
    /\ pc = "start"
    /\ IF ~args.input_is_dir THEN Die("--input is not a directory")
       ELSE IF args.fps <= 0 THEN Die("--fps must be > 0")
       ELSE IF ~args.java_exists THEN Die("java not found")
       ELSE IF ~args.ffmpeg THEN Die("ffmpeg not found in PATH")
       ELSE IF ~args.ffprobe THEN Die("ffprobe not found in PATH")
       ELSE IF list_png_frames(src_dir) = <<>> THEN Die("No valid PNG frames found")
       ELSE /\ png_files' = list_png_frames(src_dir)
            /\ work_dir' = "exists"
            /\ success' = FALSE
            /\ idx' = 0
            /\ pc' = "normalize"
            /\ UNCHANGED <<args, src_dir, frames, files, vapc, err, exit_code,
                           stderr, calls, data, pos, atoms, scan_pc, scan_exit>>

\* the directory with the file of output index i written
WriteFrame(dir, i, f) == [k \in DOMAIN dir \cup {i} |-> IF k = i THEN f ELSE dir[k]]

\* lines 75-102: one iteration of the loop of normalize_frames
NormalizeFrame ==
    /\ pc = "normalize"
    /\ idx < Len(png_files)
    /\ Fixed
    /\ UNCHANGED <<files, vapc>>
    /\ LET e == EntryOf(src_dir, png_files[idx + 1])
           step == frame_step(e)
       IN  CASE step = "raise_png" ->
                  Raise("Not a PNG file") /\ UNCHANGED <<idx, frames, calls>>
             [] step = "raise_width" ->
                  Raise("Frame width must be 1008") /\ UNCHANGED <<idx, frames, calls>>
             [] step = "raise_height" ->
                  Raise("Frame height must be 1334 or 1344")
                  /\ UNCHANGED <<idx, frames, calls>>
             [] step = "link" ->
                  /\ frames' = WriteFrame(frames, idx, Linked(e))
                  /\ idx' = idx + 1
                  /\ Goto("normalize")
                  /\ UNCHANGED calls
             [] step = "crop" ->
                  \E rc \in ExitCodes :
                     /\ calls' = Append(calls, Call("ffmpeg_crop", "frame", rc))
                     /\ IF rc = 0
                        THEN /\ frames' = WriteFrame(frames, idx, Cropped(e))
                             /\ idx' = idx + 1
                             /\ Goto("normalize")
                        ELSE Raise("crop frame failed") /\ UNCHANGED <<idx, frames>>

\* the loop of normalize_frames is over: line 507 returns
NormalizeReturn ==
    /\ pc = "normalize"
    /\ idx = Len(png_files)
    /\ Goto("compile")
    /\ Fixed
    /\ UNCHANGED <<idx, frames, files, vapc, calls>>

\* line 509, lines 339-363: returns, or raises (VapBatch.java, javac or
\* animtool.jar missing, javac failing, the class missing afterwards)
CompileVapBatch ==
    /\ pc = "compile"
    /\ Fixed
    /\ UNCHANGED <<idx, frames, files, vapc, calls>>
    /\ \E ok \in BOOLEAN : IF ok THEN Goto("encode") ELSE Raise("compile VapBatch failed")

\* lines 377-393: the encoder runs; it may leave a video and a descriptor in
\* its output directory and in the output subdirectory of the frame directory
RunEncoder ==
    /\ pc = "encode"
    /\ Fixed
    /\ UNCHANGED <<idx, frames, vapc>>
    /\ \E rc \in ExitCodes, v \in EncoderVideos, j \in EncoderJsons,
          fv \in FallbackVideos, fj \in FallbackJsons, fm \in FallbackMd5s :
          /\ calls' = Append(calls, Call("VapBatch", "frames", rc))
          /\ files' = [files EXCEPT ![VapVideo] = v, ![VapJson] = j,
                                    ![FallbackVideo] = fv, ![FallbackJson] = fj,
                                    ![FallbackMd5] = fm]
          /\ Goto("encode_ret")

\* line 401
fallback_available_VideoOnly(fs) == Exists(fs[FallbackVideo])

fallback_available(fs) == Exists(fs[FallbackVideo]) /\ Exists(fs[FallbackJson])

\* lines 394-414: the exit status of the encoder, then the fallback
EncoderReturn ==
    /\ pc = "encode_ret"
    /\ Fixed
    /\ UNCHANGED <<idx, frames, vapc, calls>>
    /\ IF calls[Len(calls)].rc = 0
       THEN Goto("mode_branch") /\ UNCHANGED files
       ELSE IF fallback_available(files)
       THEN /\ files' = [files EXCEPT
                           ![VapVideo] = files[FallbackVideo],
                           ![VapJson] = files[FallbackJson],
                           ![VapMd5] = IF Exists(files[FallbackMd5])
                                       THEN files[FallbackMd5] ELSE files[VapMd5]]
            /\ Goto("mode_branch")
       ELSE Raise(ErrEncoder) /\ UNCHANGED files

\* lines 522-527 and 535
ModeBranch ==
    /\ pc = "mode_branch"
    /\ Fixed
    /\ UNCHANGED <<idx, frames, files, vapc, calls>>
    /\ IF ~Exists(files[VapVideo]) THEN Raise(ErrNoVideo)
       ELSE IF args.mode = "standard" THEN Goto("standard")
       ELSE Goto("parse")

\* lines 528-533
StandardFinalize ==
    /\ pc = "standard"
    /\ UNCHANGED <<args, src_dir, png_files, work_dir, exit_code, stderr,
                   data, pos, atoms, scan_pc, scan_exit, idx, frames, vapc>>
    /\ \E rc \in ExitCodes :
          /\ calls' = calls \o ProbeCalls(files[VapVideo], VapVideo, rc)
          /\ IF ~is_playable_mp4(files[VapVideo], rc)
             THEN Raise(ErrNotPlayable) /\ UNCHANGED <<files, success>>
             ELSE /\ files' = [files EXCEPT
                                 ![IF args.output_is_dir THEN OutDirVideo ELSE OutMp4] =
                                     files[VapVideo]]
                  /\ success' = TRUE
                  /\ Goto("finally")

\* lines 535-537
ParseVapc ==
    /\ pc = "parse"
    /\ Fixed
    /\ UNCHANGED <<idx, frames, files, calls>>
    /\ IF ~Exists(files[VapJson]) THEN Raise(ErrNoJson) /\ UNCHANGED vapc
       ELSE LET r == parse_vapc_json(files[VapJson].doc)
            IN  IF r.ok THEN vapc' = r /\ Goto("swap")
                ELSE Raise(r.err) /\ UNCHANGED vapc

\* line 538, lines 236-288
SwapVideoRegions ==
    /\ pc = "swap"
    /\ Fixed
    /\ UNCHANGED <<idx, frames, vapc>>
    /\ IF invalid_frame_metadata(vapc)
       THEN Raise(ErrMetadata) /\ UNCHANGED <<files, calls>>
       ELSE \E rc \in ExitCodes :
               /\ calls' = Append(calls, [tool |-> "ffmpeg_swap", arg |-> SwappedMp4,
                                           rc |-> rc, filter |-> filter_str(vapc)])
               /\ IF rc = 0
                  THEN \E out \in SwapOutputs :
                          /\ files' = [files EXCEPT ![SwappedMp4] = out]
                          /\ Goto("swap_gate")
                  ELSE Raise(ErrSwap) /\ UNCHANGED files

\* lines 539-540
SwapGate ==
    /\ pc = "swap_gate"
    /\ Fixed
    /\ UNCHANGED <<idx, frames, files, vapc>>
    /\ \E rc \in ExitCodes :
          /\ calls' = calls \o ProbeCalls(files[SwappedMp4], SwappedMp4, rc)
          /\ IF ~is_playable_mp4(files[SwappedMp4], rc)
             THEN Raise(ErrSwapped)
             ELSE Goto("atom")

\* lines 299-310
BuildAtom ==
    /\ pc = "atom"
    /\ Fixed
    /\ UNCHANGED <<idx, frames, vapc, calls>>
    /\ files' = [files EXCEPT
                    ![VapcAtom] = AtomFile(create_vapc_atom_file(updated_json(vapc)),
                                           updated_json(vapc))]
    /\ Goto("strip")

\* lines 312-317: subprocess.run raises when the program cannot be started
\* (main never checks that mp4edit exists: lines 484-485)
RunRemove ==
    /\ pc = "strip"
    /\ Fixed
    /\ UNCHANGED <<idx, frames, vapc>>
    /\ IF ~args.mp4edit_exists
       THEN Raise(ErrLaunch) /\ UNCHANGED <<files, calls>>
       ELSE \E rc \in ExitCodes, out \in RemoveOutputs(files[SwappedMp4]) :
               /\ calls' = Append(calls, Call("mp4edit_remove", SwappedMp4, rc))
               /\ files' = [files EXCEPT ![NoVapcMp4] = out]
               /\ Goto("strip_check")

\* line 318: TRUE when the output of the remove call is kept
keep_removed(rc, f) == ~(rc # 0 \/ ~is_valid_mp4(f))

\* lines 318-319
StripFallback ==
    /\ pc = "strip_check"
    /\ Fixed
    /\ UNCHANGED <<idx, frames, vapc, calls>>
    /\ files' = IF keep_removed(calls[Len(calls)].rc, files[NoVapcMp4])
                THEN files
                ELSE [files EXCEPT ![NoVapcMp4] = files[SwappedMp4]]
    /\ Goto("insert")

\* lines 321-325
InsertAtom ==
    /\ pc = "insert"
    /\ Fixed
    /\ UNCHANGED <<idx, frames, vapc>>
    /\ IF ~args.mp4edit_exists
       THEN Raise(ErrLaunch) /\ UNCHANGED <<files, calls>>
       ELSE \E rc \in ExitCodes :
               /\ calls' = Append(calls, Call("mp4edit_insert", NoVapcMp4, rc))
               /\ IF rc = 0
                  THEN \E out \in InsertOutputs(files[NoVapcMp4], files[VapcAtom]) :
                          /\ files' = [files EXCEPT ![FinalTmp] = out]
                          /\ Goto("gate_valid")
                  ELSE Raise(ErrInsert) /\ UNCHANGED files

\* lines 326-333: the error the four gates raise on candidate f when the probe
\* would exit with rc ("" when all pass), and whether the probe was run
Gate(e, probed) == [err |-> e, probed |-> probed]

final_validate_VapcFirst(f, rc) ==
    IF Exists(f) /\ ~has_top_level_vapc(f.data) THEN Gate(ErrFinalNoVapc, FALSE)
    ELSE IF ~is_valid_mp4(f) THEN Gate(ErrFinalInvalid, FALSE)
    ELSE IF ~InSeq(TagMoov, list_top_level_atoms(f.data)) THEN Gate(ErrFinalNoMoov, FALSE)
    ELSE IF ~is_playable_mp4(f, rc) THEN Gate(ErrFinalNotPlayable, TRUE)
    ELSE Gate("", TRUE)

final_validate(f, rc) ==
    IF ~is_valid_mp4(f) THEN Gate(ErrFinalInvalid, FALSE)
    ELSE IF ~has_top_level_vapc(f.data) THEN Gate(ErrFinalNoVapc, FALSE)
    ELSE IF ~InSeq(TagMoov, list_top_level_atoms(f.data)) THEN Gate(ErrFinalNoMoov, FALSE)
    ELSE IF ~is_playable_mp4(f, rc) THEN Gate(ErrFinalNotPlayable, TRUE)
    ELSE Gate("", TRUE)

\* lines 326-333
FinalValidate ==
    /\ pc = "gate_valid"
    /\ Fixed
    /\ UNCHANGED <<idx, frames, files, vapc>>
    /\ \E rc \in ExitCodes :
          LET g == final_validate(files[FinalTmp], rc)
          IN  /\ calls' = IF g.probed
                          THEN Append(calls, Call("ffprobe", FinalTmp, rc))
                          ELSE calls
              /\ IF g.err # "" THEN Raise(g.err) ELSE Goto("move")

\* lines 335-336: shutil.move
MoveFinal ==
    /\ pc = "move"
    /\ Fixed
    /\ UNCHANGED <<idx, frames, vapc, calls>>
    /\ files' = [files EXCEPT
                    ![IF args.output_is_dir THEN OutDirFinal ELSE OutMp4] = files[FinalTmp],
                    ![FinalTmp] = NoFile]
    /\ Goto("post_check")

\* lines 542-544: read_bytes raises when the --output path is a directory
PostCheck ==
    /\ pc = "post_check"
    /\ UNCHANGED <<args, src_dir, png_files, work_dir, exit_code, stderr,
                   data, pos, atoms, scan_pc, scan_exit, idx, frames, files,
                   vapc, calls>>
    /\ IF args.output_is_dir
       THEN Raise(ErrIsDir) /\ UNCHANGED success
       ELSE IF ~has_top_level_vapc(files[OutMp4].data)
       THEN Raise(ErrOutNoVapc) /\ UNCHANGED success
       ELSE success' = TRUE /\ Goto("finally")

\* line 546: TRUE when the work directory is removed
removes_work_dir_Always(keep_work, wd, ok) == ~keep_work /\ wd = "exists"

removes_work_dir(keep_work, wd, ok) == ~keep_work /\ wd = "exists" /\ ok

\* lines 545-549, then the exit of the process: an exception that left the try
\* block goes on to the interpreter, which prints it and exits with status 1
Finally ==
    /\ pc = "finally"
    /\ pc' = "exited"
    /\ work_dir' = IF removes_work_dir(args.keep_work, work_dir, success)
                   THEN "removed" ELSE work_dir
    /\ stderr' = stderr
                 \o (IF ~removes_work_dir(args.keep_work, work_dir, success) /\ ~success
                     THEN <<MsgPreserved>> ELSE <<>>)
                 \o (IF err # "" THEN <<err>> ELSE <<>>)
    /\ exit_code' = IF err = "" THEN 0 ELSE 1
    /\ UNCHANGED <<args, src_dir, png_files, idx, frames, files, vapc, success,
                   err, calls, data, pos, atoms, scan_pc, scan_exit>>

-----------------------------------------------------------------------------
(***************************************************************************)
(* Spec: every run of main() over the arguments and directories below.     *)
(***************************************************************************)
NameA1 == Name(<<"a", "_", "1">>, ".png")
NameA01 == Name(<<"a", "0", "1">>, ".PNG")
NameA10 == Name(<<"a", "1", "0">>, ".png")
Name2 == Name(<<"2">>, ".png")
NameNoDigits == Name(<<"a", "2", "b">>, ".png")
NameDir == Name(<<"9">>, ".png")

NotPng(name) ==
    [name |-> name, is_file |-> TRUE, png_ok |-> FALSE, width |-> 0, height |-> 0]
Directory(name) ==
    [name |-> name, is_file |-> FALSE, png_ok |-> FALSE, width |-> 0, height |-> 0]

MainListings ==
    { <<>>,
      <<Entry(NameNoDigits, 1008, 1334)>>,
      <<Entry(NameA1, 1008, 1334)>>,
      <<Entry(NameA10, 1008, 1344), Entry(NameA1, 1008, 1334)>>,
      <<Entry(NameA1, 1008, 1334), Entry(Name2, 1000, 1334)>>,
      <<Entry(NameA1, 1008, 1400)>>,
      <<NotPng(NameA1)>> }

ArgSets ==
    [mode : {"standard", "mask-left"}, keep_work : BOOLEAN, fps : {0, 25},
     input_is_dir : BOOLEAN, java_exists : BOOLEAN, ffmpeg : BOOLEAN,
     ffprobe : BOOLEAN, mp4edit_exists : BOOLEAN, output_is_dir : BOOLEAN]

EmptyDir == [k \in {} |-> NoFile]

\* the state at the first line of main()
MainEntry ==
    /\ png_files = <<>>
    /\ idx = 0
    /\ frames = EmptyDir
    /\ work_dir = "none"
    /\ files = [p \in Paths |-> NoFile]
    /\ vapc = NoVapc
    /\ success = FALSE
    /\ err = ""
    /\ exit_code = -1
    /\ stderr = <<>>
    /\ calls = <<>>

Init ==
    /\ IdleScan
    /\ args \in ArgSets
    /\ src_dir \in MainListings
    /\ pc = "start"
    /\ MainEntry

Next ==
    \/ MainStart
    \/ NormalizeFrame
    \/ NormalizeReturn
    \/ CompileVapBatch
    \/ RunEncoder
    \/ EncoderReturn
    \/ ModeBranch
    \/ StandardFinalize
    \/ ParseVapc
    \/ SwapVideoRegions
    \/ SwapGate
    \/ BuildAtom
    \/ RunRemove
    \/ StripFallback
    \/ InsertAtom
    \/ FinalValidate
    \/ MoveFinal
    \/ PostCheck
    \/ Finally

Spec == Init /\ [][Next]_vars

-----------------------------------------------------------------------------
(***************************************************************************)
(* SpecScan: list_top_level_atoms on every buffer of ScanBuffers, one loop *)
(* iteration per step.  main() does not run.                               *)
(***************************************************************************)
DefaultArgs ==
    [mode |-> "standard", keep_work |-> FALSE, fps |-> 25, input_is_dir |-> TRUE,
     java_exists |-> TRUE, ffmpeg |-> TRUE, ffprobe |-> TRUE, mp4edit_exists |-> TRUE,
     output_is_dir |-> FALSE]

\* lines 106-109
ScanStart ==
    /\ scan_pc = "idle"
    /\ pos' = 0
    /\ atoms' = <<>>
    /\ scan_pc' = "loop"
    /\ UNCHANGED <<data, scan_exit>>
    /\ UNCHANGED main_vars

\* lines 110-125: the loop test, then one iteration; the function returns when
\* the test fails or an iteration breaks
ScanLoop ==
    /\ scan_pc = "loop"
    /\ UNCHANGED data
    /\ UNCHANGED main_vars
    /\ IF ~ScanCond(data, pos)
       THEN scan_pc' = "ret" /\ scan_exit' = "cond" /\ UNCHANGED <<pos, atoms>>
       ELSE LET r == ScanIter(data, pos, atoms)
            IN  /\ pos' = r.pos
                /\ atoms' = r.atoms
                /\ scan_exit' = r.brk
                /\ scan_pc' = IF r.brk # "" THEN "ret" ELSE "loop"

InitScan ==
    /\ data \in ScanBuffers
    /\ pos = 0
    /\ atoms = <<>>
    /\ scan_pc = "idle"
    /\ scan_exit = ""
    /\ pc = "off"
    /\ args = DefaultArgs
    /\ src_dir = <<>>
    /\ MainEntry

NextScan == ScanStart \/ ScanLoop

SpecScan == InitScan /\ [][NextScan]_vars

-----------------------------------------------------------------------------
(***************************************************************************)
(* SpecNorm: frame discovery and normalization on every directory listing  *)
(* of at most MaxFrames entries with distinct names.                       *)
(***************************************************************************)
MaxFrames == 3

NormNames == {NameA1, NameA01, NameA10, Name2, NameNoDigits}

NormEntries ==
    {Entry(n, FrameWidth, h) : n \in NormNames, h \in {1334, 1344, 1400}}
    \cup {Directory(NameDir)}

NormListings ==
    {l \in SeqsUpTo(NormEntries, MaxFrames) :
        \A i, j \in 1..Len(l) : i # j => l[i].name # l[j].name}

InitNorm ==
    /\ IdleScan
    /\ args = DefaultArgs
    /\ src_dir \in NormListings
    /\ pc = "start"
    /\ MainEntry

NextNorm == MainStart \/ NormalizeFrame \/ NormalizeReturn

SpecNorm == InitNorm /\ [][NextNorm]_vars

-----------------------------------------------------------------------------
(***************************************************************************)
(* SpecDesc: the descriptor path of a mask-left run, from the parse of     *)
(* line 537 to the atom file of line 310, on every descriptor document of  *)
(* DescDocs.  The run starts where ModeBranch leaves it: one frame         *)
(* normalized, the encoder returned 0 and left a valid video.              *)
(***************************************************************************)
\* a key the document does not have
Absent == [t |-> "absent", v |-> 0]

\* the JSON object with the keys of p whose value is not Absent
MkObj(p) == JObj([k \in {x \in DOMAIN p : p[x].t # "absent"} |-> p[k]])

Rect(x, y, w, h) == JList(<<JInt(x), JInt(y), JInt(w), JInt(h)>>)

FValues == {Absent, JNull, JInt(50), JInt(0), JInt(-3), JBool(TRUE), JFloat(100),
            JStr("50")}
FpsValues == {Absent, JInt(25), JFloat(50), JFloat(59), JInt(0), JFloat(-1),
              JBool(TRUE), JStr("25"), JInt(FloatMax + 1)}
AFrameValues ==
    {Absent, Rect(0, 0, 1008, 1334), Rect(0, 0, 504, 667),
     JList(<<JInt(0), JInt(0), JInt(1008)>>),
     JList(<<JInt(0), JInt(0), JBool(TRUE), JInt(1334)>>),
     JList(<<JInt(0), JInt(0), JFloat(2016), JInt(1334)>>),
     JInt(4)}
RgbFrameValues ==
    {Absent, Rect(0, 1334, 1008, 1334), Rect(504, 0, 504, 667),
     JList(<<JInt(0), JInt(0), JInt(1008), JInt(1334), JInt(0)>>),
     JList(<<JInt(0), JStr("0"), JInt(1008), JInt(1334)>>)}
\* keys the program does not read: none, or one at the top level and some in info
ExtraValues == {Absent, JInt(2)}

DescObjects ==
    {MkObj([v |-> IF x.t = "absent" THEN Absent ELSE JList([n \in 1..100 |-> JInt(n)]),
            info |-> MkObj([f |-> f, fps |-> fps, aFrame |-> a, rgbFrame |-> rgb,
                            videoW |-> IF x.t = "absent" THEN Absent ELSE JInt(1008),
                            videoH |-> IF x.t = "absent" THEN Absent ELSE JInt(2668),
                            orien |-> x])]) :
        f \in FValues, fps \in FpsValues, a \in AFrameValues,
        rgb \in RgbFrameValues, x \in ExtraValues}

DescDocs ==
    DescObjects
    \cup {JInvalid, JNull, JInt(1), JList(<<>>), MkObj([v |-> JInt(2)]),
          MkObj([info |-> JNull]), MkObj([info |-> JList(<<>>)]),
          MkObj([info |-> MkObj([f |-> Absent])])}

InitDesc ==
    /\ IdleScan
    /\ args \in {a \in ArgSets :
                    /\ a.mode = "mask-left" /\ a.fps = 25 /\ a.input_is_dir
                    /\ a.java_exists /\ a.ffmpeg /\ a.ffprobe /\ a.mp4edit_exists}
    /\ src_dir = <<Entry(NameA1, 1008, 1334)>>
    /\ png_files = <<NameA1>>
    /\ idx = 1
    /\ frames = WriteFrame(EmptyDir, 0, Linked(Entry(NameA1, 1008, 1334)))
    /\ work_dir = "exists"
    /\ \E doc \in DescDocs :
          files = [p \in Paths |->
                     IF p = VapVideo THEN Mp4(VideoGood)
                     ELSE IF p = VapJson THEN Json(doc)
                     ELSE NoFile]
    /\ vapc = NoVapc
    /\ success = FALSE
    /\ err = ""
    /\ exit_code = -1
    /\ stderr = <<>>
    /\ calls = <<Call("VapBatch", "frames", 0)>>
    /\ pc = "parse"

NextDesc == ParseVapc \/ SwapVideoRegions \/ SwapGate \/ BuildAtom

SpecDesc == InitDesc /\ [][NextDesc]_vars

-----------------------------------------------------------------------------
(***************************************************************************)
(* Properties of the scanner (SpecScan).  The box at a cursor position is  *)
(* described here from the container format, not from ScanIter.            *)
(***************************************************************************)
Size32At(d, p) == from_bytes_big(Slice(d, p, p + 4))
TagAt(d, p) == Slice(d, p + 4, p + 8)
\* a 64-bit box whose 16-byte header does not fit in the file
HeaderCut(d, p) == Size32At(d, p) = 1 /\ p + 16 > BufLen(d)
DeclaredHeader(d, p) == IF Size32At(d, p) = 1 THEN 16 ELSE 8
DeclaredSize(d, p) ==
    CASE Size32At(d, p) = 1 -> from_bytes_big(Slice(d, p + 8, p + 16))
      [] Size32At(d, p) = 0 -> BufLen(d) - p
      [] OTHER -> Size32At(d, p)
Malformed(d, p) == HeaderCut(d, p) \/ DeclaredSize(d, p) < DeclaredHeader(d, p)
Overruns(d, p) == ~HeaderCut(d, p) /\ p + DeclaredSize(d, p) > BufLen(d)
\* the scanner stands at a box header
AtBox == scan_pc = "loop" /\ ScanCond(data, pos)

\* C8: when the scan reaches a box whose 32-bit size field is 0, the iteration
\* appends that box's tag, once, and moves the cursor to the end of the file;
\* from the end of the file the function returns with the tags unchanged, so
\* nothing after that box's header is reported.
C8_ZeroSizeBoxIsTerminal ==
    /\ [][(AtBox /\ Size32At(data, pos) = 0) =>
            /\ atoms' = Append(atoms, TagAt(data, pos))
            /\ pos' = BufLen(data)
            /\ scan_pc' = "loop"]_vars
    /\ [][(scan_pc = "loop" /\ pos = BufLen(data)) =>
            (scan_pc' = "ret" /\ atoms' = atoms)]_vars

\* a size-0 box after one box and before the bytes of a third: the scan has
\* returned two tags
C8_Witness ==
    /\ scan_pc = "ret"
    /\ scan_exit = "cond"
    /\ data = <<Box(8, TagMoov, 0), Box(0, TagVapc, 4), Box(12, TagMdat, 4)>>
    /\ atoms = <<TagMoov, TagVapc>>
    /\ pos = BufLen(data)

\* C9 as stated: at a box that is malformed or whose declared extent overruns
\* the end of the file, the function returns the tags collected before it.
C9_StopsBeforeMalformedOrOverrun ==
    [][(AtBox /\ (Malformed(data, pos) \/ Overruns(data, pos))) =>
         (scan_pc' = "ret" /\ atoms' = atoms)]_vars

\* C9, amended: at a malformed box (declared size below the header size, or a
\* 64-bit header that does not fit) the function returns the tags collected
\* before it; any other box, one that overruns the end of the file included,
\* has its tag appended and the cursor moved by its declared size; when fewer
\* than 8 bytes remain the function returns.  No step fails: every step from a
\* loop state is one of these three.
C9_StopsAtMalformedKeepsOverrun ==
    /\ [][AtBox =>
            IF Malformed(data, pos)
            THEN scan_pc' = "ret" /\ atoms' = atoms
            ELSE /\ atoms' = Append(atoms, TagAt(data, pos))
                 /\ pos' = pos + DeclaredSize(data, pos)
                 /\ scan_pc' = "loop"]_vars
    /\ [][(scan_pc = "loop" /\ ~ScanCond(data, pos)) =>
            (scan_pc' = "ret" /\ atoms' = atoms)]_vars

\* an overrunning box after a well-formed one: both tags are returned
C9_Witness ==
    /\ scan_pc = "ret"
    /\ data = <<Box(8, TagMoov, 0), Box(40, TagMdat, 4)>>
    /\ atoms = <<TagMoov, TagMdat>>
    /\ pos > BufLen(data)

-----------------------------------------------------------------------------
(***************************************************************************)
(* Properties of frame discovery and normalization (SpecNorm).             *)
(***************************************************************************)
\* the entries of the listing that are frames: regular files named
\* <anything><digits>.png, the extension in any case
IsFrame(e) ==
    /\ e.is_file
    /\ Lower(e.name.ext) = ".png"
    /\ e.name.stem # <<>>
    /\ IsDigit(e.name.stem[Len(e.name.stem)])
FrameNames(listing) == {listing[i].name : i \in {k \in 1..Len(listing) : IsFrame(listing[k])}}
\* the number the trailing digits of a frame name spell
SuffixOf(name) == IntOf(TrailingDigits(name.stem))
NormalizationDone == pc = "compile"

\* C7: when normalization has completed on a listing with N frames, the
\* normalized directory holds exactly the output indices 0..N-1, every frame
\* is the source of exactly one of them, no other file is, and the frame at
\* index k has the (k+1)-th smallest suffix: fewer than k+1 frames have a
\* smaller suffix and at least k+1 have a suffix that is not larger.
C7_DenseAscendingOutput ==
    NormalizationDone =>
        LET names == FrameNames(src_dir)
            N == Cardinality(names)
        IN  /\ DOMAIN frames = 0..(N - 1)
            /\ {frames[k].from : k \in DOMAIN frames} = names
            /\ \A k \in DOMAIN frames :
                  /\ Cardinality({n \in names : SuffixOf(n) < SuffixOf(frames[k].from)}) <= k
                  /\ Cardinality({n \in names : SuffixOf(n) <= SuffixOf(frames[k].from)}) > k

\* two frames listed out of order with suffixes 10 and 1, and a file without
\* trailing digits, normalized to two outputs
C7_Witness ==
    /\ NormalizationDone
    /\ Len(src_dir) = 3
    /\ DOMAIN frames = {0, 1}
    /\ src_dir[1].name = NameA10
    /\ src_dir[2].name = NameNoDigits
    /\ src_dir[3].name = NameA1
    /\ frames[0].from = NameA1
    /\ frames[1].from = NameA10

-----------------------------------------------------------------------------
(***************************************************************************)
(* Properties of a run of main() (Spec).                                   *)
(***************************************************************************)
Invoked(tool) == \E i \in 1..Len(calls) : calls[i].tool = tool
InvokedOk(tool) == \E i \in 1..Len(calls) : calls[i].tool = tool /\ calls[i].rc = 0
Probed(p) == \E i \in 1..Len(calls) : calls[i].tool = "ffprobe" /\ calls[i].arg = p
ProbeOk(p) ==
    \E i \in 1..Len(calls) :
       calls[i].tool = "ffprobe" /\ calls[i].arg = p /\ calls[i].rc = 0
LastRc == calls[Len(calls)].rc
\* the try block is over
TryLeft == pc \in {"finally", "exited"}
\* the run has ended in Failed: an exception left the try block
RunFailed == pc = "exited" /\ exit_code = 1
RunDone == pc = "exited" /\ exit_code = 0

\* FinalValidate has acted: the insert call returned 0 and the gates were run
AfterFinalValidate ==
    InvokedOk("mp4edit_insert") /\ pc \in {"move", "post_check", "finally", "exited"}
\* the final candidate (moved to the destination on success)
Candidate ==
    IF Exists(files[OutMp4]) THEN files[OutMp4]
    ELSE IF Exists(files[OutDirFinal]) THEN files[OutDirFinal]
    ELSE files[FinalTmp]
CandidateTags == list_top_level_atoms(Candidate.data)

\* C1 as stated, for the moov gate: a candidate crafted to fail exactly that
\* gate (at least 1024 bytes, ftyp first, vapc and mdat present, moov absent)
\* fails the run with the moov gate's own error.
C1_MoovGateFailsAlone ==
    (/\ AfterFinalValidate
     /\ Exists(Candidate)
     /\ BufLen(Candidate.data) >= MinSizeBytes
     /\ CandidateTags # <<>>
     /\ CandidateTags[1] = TagFtyp
     /\ InSeq(TagVapc, CandidateTags)
     /\ InSeq(TagMdat, CandidateTags)
     /\ ~InSeq(TagMoov, CandidateTags))
    => err = ErrFinalNoMoov

\* C1, amended: once FinalValidate has acted, the run carries the error of the
\* first unmet gate in the order structural validity, top-level vapc, moov,
\* probe (and none of their errors when all are met); the probe is run only when the three
\* gates before it are met; and the moov gate is never the one that fails, a
\* candidate without moov being already structurally invalid.
C1_FirstUnmetGateFails ==
    AfterFinalValidate =>
        LET unmet1 == ~is_valid_mp4(Candidate)
            unmet2 == ~InSeq(TagVapc, CandidateTags)
            unmet3 == ~InSeq(TagMoov, CandidateTags)
            unmet4 == ~ProbeOk(FinalTmp)
        IN  /\ unmet1 => (err = ErrFinalInvalid /\ ~Probed(FinalTmp))
            /\ (~unmet1 /\ unmet2) => (err = ErrFinalNoVapc /\ ~Probed(FinalTmp))
            /\ (~unmet1 /\ ~unmet2 /\ unmet3) => (err = ErrFinalNoMoov /\ ~Probed(FinalTmp))
            /\ (~unmet1 /\ ~unmet2 /\ ~unmet3 /\ unmet4) =>
                  (err = ErrFinalNotPlayable /\ Probed(FinalTmp))
            /\ (~unmet1 /\ ~unmet2 /\ ~unmet3 /\ ~unmet4) =>
                  err \notin {ErrFinalInvalid, ErrFinalNoVapc, ErrFinalNoMoov,
                              ErrFinalNotPlayable}
            /\ err # ErrFinalNoMoov

\* a run failed at the probe gate, the three gates before it met
C1_Witness ==
    /\ RunFailed
    /\ err = ErrFinalNotPlayable
    /\ is_valid_mp4(files[FinalTmp])
    /\ has_top_level_vapc(files[FinalTmp].data)
    /\ Probed(FinalTmp)

\* C2: the work directory is gone only in a run that ended in Done with the
\* keep-work flag unset; a run that ended in Failed still has it, and the
\* message naming it is on the error stream.
C2_WorkDirKeptOnFailure ==
    /\ work_dir = "removed" => (RunDone /\ success /\ ~args.keep_work)
    /\ RunFailed => (work_dir = "exists" /\ InSeq(MsgPreserved, stderr))
    /\ (RunDone /\ ~args.keep_work) => work_dir = "removed"

\* a run without the keep-work flag that failed at the last gate
C2_Witness ==
    /\ RunFailed
    /\ ~args.keep_work
    /\ err = ErrFinalNotPlayable
    /\ work_dir = "exists"

\* C3: on the return of the encoder call: exit status 0 goes on to ModeBranch
\* with no file touched; a non-zero status goes on to ModeBranch exactly when
\* the fallback video and descriptor both exist, copied over the encoder's
\* output files; otherwise the run fails with the encoder's error, no file
\* touched.
C3_EncoderFallback ==
    [][pc = "encode_ret" =>
         LET both == Exists(files[FallbackVideo]) /\ Exists(files[FallbackJson])
         IN  IF LastRc = 0
             THEN pc' = "mode_branch" /\ files' = files
             ELSE IF both
             THEN /\ pc' = "mode_branch"
                  /\ files'[VapVideo] = files[FallbackVideo]
                  /\ files'[VapJson] = files[FallbackJson]
                  /\ files'[FallbackVideo] = files[FallbackVideo]
                  /\ files'[FallbackJson] = files[FallbackJson]
             ELSE pc' = "finally" /\ err' = ErrEncoder /\ files' = files]_vars

\* the encoder failed, left a descriptor but no video in its output directory,
\* and the run is at ModeBranch with the fallback files in place
C3_Witness ==
    /\ pc = "mode_branch"
    /\ calls[Len(calls)].tool = "VapBatch"
    /\ LastRc = 1
    /\ files[VapVideo] = Mp4(VideoFallback)
    /\ files[VapJson] = files[FallbackJson]
    /\ Exists(files[FallbackJson])

\* the frames of the listing are not all valid, or there are none
BadFrames(listing) ==
    \/ FrameNames(listing) = {}
    \/ \E i \in 1..Len(listing) :
          /\ IsFrame(listing[i])
          /\ \/ listing[i].width # 1008
             \/ listing[i].height \notin {1334, 1344}

\* C4: the encoder has been invoked only if every frame passed validation and
\* was normalized; with no frame, or a frame of width other than 1008 or height
\* outside {1334, 1344}, the encoder is never invoked and the run ends with a
\* failure status.
C4_EncoderOnlyAfterValidation ==
    /\ Invoked("VapBatch") =>
          (/\ ~BadFrames(src_dir)
           /\ idx = Len(png_files)
           /\ DOMAIN frames = 0..(Len(png_files) - 1))
    /\ BadFrames(src_dir) =>
          (/\ ~Invoked("VapBatch")
           /\ pc = "exited" => exit_code \in {1, 2}
           /\ pc \in {"start", "normalize", "finally", "exited"})

\* the second frame has the wrong width: the first was normalized, the run
\* failed, the encoder never ran
C4_Witness ==
    /\ RunFailed
    /\ err = "Frame width must be 1008"
    /\ DOMAIN frames = {0}
    /\ ~Invoked("VapBatch")

\* where the copy of line 531 lands: at the --output path, or inside it when
\* it is an existing directory
StandardDest == IF args.output_is_dir THEN OutDirVideo ELSE OutMp4

\* the run, in standard mode, is past the playability gate of lines 528-529
StandardGateDone ==
    /\ args.mode = "standard"
    /\ TryLeft
    /\ Invoked("VapBatch")
    /\ err \notin {ErrEncoder, ErrNoVideo}

\* C5: in standard mode the run succeeds, with the encoder's video copied to
\* the destination, exactly when the video is structurally valid and the probe
\* exited 0; otherwise it fails as not playable and the destination is not
\* written.  No standard-mode run that fails writes the destination.
C5_StandardCopiesIffPlayable ==
    /\ StandardGateDone =>
          LET playable == is_valid_mp4(files[VapVideo]) /\ ProbeOk(VapVideo)
          IN  /\ playable <=> success
              /\ playable => (err = "" /\ files[StandardDest] = files[VapVideo])
              /\ ~playable => (err = ErrNotPlayable /\ ~Exists(files[StandardDest]))
              /\ pc = "exited" => exit_code = (IF playable THEN 0 ELSE 1)
    /\ (args.mode = "standard" /\ ~success) => ~Exists(files[StandardDest])

\* a standard run that reached Done with the video at the destination
C5_Witness ==
    /\ RunDone
    /\ args.mode = "standard"
    /\ files[OutMp4] = Mp4(VideoGood)
    /\ ProbeOk(VapVideo)

\* C6 as stated: the remove call never ends the run, and the container handed
\* to InsertAtom is the remove call's output exactly when the call exited 0 and
\* the output is structurally valid, the swapped container otherwise.
C6_StripNeverFailsTheRun ==
    /\ [][pc = "strip" => pc' = "strip_check"]_vars
    /\ [][pc = "strip_check" =>
            /\ pc' = "insert"
            /\ files'[NoVapcMp4] =
                  IF LastRc = 0 /\ is_valid_mp4(files[NoVapcMp4])
                  THEN files[NoVapcMp4] ELSE files[SwappedMp4]]_vars

\* containers of at least 1024 bytes that fail on their box structure: no
\* box, no moov, no mdat
BoxStructureFailures ==
    {Mp4(Garbage), Mp4(VideoNoMoov), Mp4(VideoNoMdat)}
SmallCandidate ==
    AfterFinalValidate /\ Exists(Candidate) /\ BufLen(Candidate.data) < MinSizeBytes

\* C10: a candidate below 1024 bytes fails the run at the structural-validity
\* gate, before the probe or any later gate, and its failure carries a reason
\* that no failure on the box structure (no box, no moov, no mdat) carries.
C10_SmallFileFailsWithSizeReason ==
    SmallCandidate =>
        /\ TryLeft
        /\ err \notin {"", ErrFinalNoVapc, ErrFinalNoMoov, ErrFinalNotPlayable}
        /\ ~Probed(FinalTmp)
        /\ \A g \in BoxStructureFailures, rc \in ExitCodes :
              final_validate(g, rc).err # err

-----------------------------------------------------------------------------
(***************************************************************************)
(* Structural validity at the gates of a run (Spec).                       *)
(***************************************************************************)
\* the conditions of the claim, over the file and the tags the scan yields
ValidByConditions(f) ==
    /\ Exists(f)
    /\ BufLen(f.data) >= 1024
    /\ LET tags == list_top_level_atoms(f.data)
       IN  /\ tags # <<>>
           /\ tags[1] = TagFtyp \/ InSeq(TagMoov, tags)
           /\ InSeq(TagMoov, tags)
           /\ InSeq(TagMdat, tags)
\* the playability gate of line 539 has been evaluated
SwapGateDone == InvokedOk("ffmpeg_swap") /\ pc # "swap_gate"

\* C11: at each place a run consults is_valid_mp4 the outcome is that of the
\* conditions (exists, at least 1024 bytes, at least one tag, ftyp first or
\* moov present, moov present, mdat present): the probe behind it is run on
\* the encoder's video and on the swapped video exactly when they hold, the
\* final candidate fails the first gate exactly when they do not, and the
\* remove output is kept only when they hold; no gate changes a file.
C11_ValidExactlyOnConditions ==
    /\ [](StandardGateDone =>
            (Probed(VapVideo) <=> ValidByConditions(files[VapVideo])))
    /\ [](SwapGateDone =>
            (Probed(SwappedMp4) <=> ValidByConditions(files[SwappedMp4])))
    /\ [](AfterFinalValidate =>
            ((err = ErrFinalInvalid) <=> ~ValidByConditions(Candidate)))
    /\ [][pc = "strip_check" =>
            (files'[NoVapcMp4] = files[NoVapcMp4]
                <=> (files[NoVapcMp4] = files[SwappedMp4]
                     \/ (LastRc = 0 /\ ValidByConditions(files[NoVapcMp4]))))]_vars
    /\ [][(pc = "swap_gate" \/ pc = "gate_valid") => files' = files]_vars
    /\ [][pc = "standard" => (files'[VapVideo] = files[VapVideo])]_vars

\* a candidate whose first box is moov, not ftyp, passed every gate
C11_Witness ==
    /\ RunDone
    /\ files[OutMp4] = Mp4(VideoMoovFirst)
    /\ list_top_level_atoms(files[OutMp4].data)[1] = TagMoov

-----------------------------------------------------------------------------
(***************************************************************************)
(* Properties of the descriptor path (SpecDesc, Spec).                     *)
(***************************************************************************)
AtomBuilt == Exists(files[VapcAtom])
\* the document of the encoder's descriptor file, the info object of a document
DescriptorDoc == files[VapJson].doc
InfoOf(doc) == doc.v["info"].v
RewrittenKeys == {"videoW", "videoH", "aFrame", "rgbFrame"}

\* C12: once the atom file is written, the document in it has the top-level
\* keys of the parsed descriptor, each but info with its value; its info has
\* the keys of the parsed info and the four geometry keys, each other key with
\* its value, and videoW, videoH, aFrame, rgbFrame are 2016, 1334,
\* [0,0,1008,1334], [1008,0,1008,1334]; the parsed descriptor is still the
\* document that was read.
C12_RewriteTouchesOnlyGeometry ==
    AtomBuilt =>
        LET new == files[VapcAtom].payload
            old == DescriptorDoc
        IN  /\ vapc.vapc_json = old
            /\ new.t = "obj"
            /\ DOMAIN new.v = DOMAIN old.v
            /\ \A k \in DOMAIN old.v \ {"info"} : new.v[k] = old.v[k]
            /\ new.v["info"].t = "obj"
            /\ DOMAIN InfoOf(new) = DOMAIN InfoOf(old) \cup RewrittenKeys
            /\ \A k \in DOMAIN InfoOf(old) \ RewrittenKeys : InfoOf(new)[k] = InfoOf(old)[k]
            /\ InfoOf(new)["videoW"] = JInt(2016)
            /\ InfoOf(new)["videoH"] = JInt(1334)
            /\ InfoOf(new)["aFrame"] = Rect(0, 0, 1008, 1334)
            /\ InfoOf(new)["rgbFrame"] = Rect(1008, 0, 1008, 1334)

\* the atom is written for a descriptor with a top-level key and info keys the
\* program does not read, and geometry values that the rewrite replaces
C12_Witness ==
    /\ AtomBuilt
    /\ "v" \in DOMAIN DescriptorDoc.v
    /\ "orien" \in DOMAIN InfoOf(DescriptorDoc)
    /\ InfoOf(DescriptorDoc)["videoH"] = JInt(2668)
    /\ InfoOf(DescriptorDoc)["f"] = JInt(50)
    /\ InfoOf(files[VapcAtom].payload)["f"] = JInt(50)

\* the compositor call of the run
SwapCall == calls[CHOOSE i \in 1..Len(calls) : calls[i].tool = "ffmpeg_swap"]

\* C13: once the atom file is written, the rewritten geometry is the one the
\* compositor was given: videoW x videoH is its canvas, aFrame is the alpha
\* crop's width and height at the alpha destination (0,0), rgbFrame is the RGB
\* crop's width and height at the RGB destination (1008,0).
C13_RewriteMatchesCompositor ==
    AtomBuilt =>
        LET g == SwapCall.filter
            i == InfoOf(files[VapcAtom].payload)
        IN  /\ <<i["videoW"].v, i["videoH"].v>> = g.canvas
            /\ g.alpha_dst = <<0, 0>>
            /\ g.rgb_dst = <<1008, 0>>
            /\ i["aFrame"] =
                  Rect(g.alpha_dst[1], g.alpha_dst[2], g.alpha_crop[1], g.alpha_crop[2])
            /\ i["rgbFrame"] =
                  Rect(g.rgb_dst[1], g.rgb_dst[2], g.rgb_crop[1], g.rgb_crop[2])

\* the conditions under which the claim says the parse fails
HasKey(o, k) == k \in DOMAIN o
BadRect(i, k) ==
    \/ ~HasKey(i, k)
    \/ i[k].t # "list"
    \/ Len(i[k].v) # 4
    \/ \E n \in 1..4 : i[k].v[n].t # "int"
MalformedDescriptor(doc) ==
    \/ doc.t # "obj"
    \/ ~HasKey(doc.v, "info")
    \/ doc.v["info"].t # "obj"
    \/ ~HasKey(InfoOf(doc), "f")
    \/ InfoOf(doc)["f"].t # "int"
    \/ ~HasKey(InfoOf(doc), "fps")
    \/ InfoOf(doc)["fps"].t \notin {"int", "float"}
    \/ BadRect(InfoOf(doc), "aFrame")
    \/ BadRect(InfoOf(doc), "rgbFrame")
\* fps is an integer that float() cannot convert
FpsOutOfRange(doc) ==
    /\ InfoOf(doc)["fps"].t = "int"
    /\ InfoOf(doc)["fps"].v > FloatMax \/ InfoOf(doc)["fps"].v < -FloatMax
\* the parse of line 537 returned the values of the document
ParsedValues(doc) ==
    /\ pc' = "swap"
    /\ err' = ""
    /\ vapc'.ok
    /\ vapc'.vapc_json = doc
    /\ vapc'.frame_count = InfoOf(doc)["f"].v
    /\ vapc'.fps = (IF InfoOf(doc)["fps"].t = "int"
                    THEN 2 * InfoOf(doc)["fps"].v ELSE InfoOf(doc)["fps"].v)
    /\ vapc'.a_frame = [n \in 1..4 |-> InfoOf(doc)["aFrame"].v[n].v]
    /\ vapc'.rgb_frame = [n \in 1..4 |-> InfoOf(doc)["rgbFrame"].v[n].v]
ParseFailed == pc' = "finally" /\ err' # "" /\ vapc' = vapc

\* C14 as stated: the parse fails exactly on a malformed descriptor and
\* returns the document's values on every other.
C14_FailsExactlyOnMalformed ==
    [][(pc = "parse" /\ Exists(files[VapJson])) =>
          IF MalformedDescriptor(DescriptorDoc)
          THEN ParseFailed ELSE ParsedValues(DescriptorDoc)]_vars

\* C14, amended: the parse fails exactly on a malformed descriptor or one
\* whose fps is an integer beyond the range of a float; on every other it
\* returns the document's frame count and rectangles and its fps as a float.
C14_FailsOnMalformedOrFpsOutOfRange ==
    [][(pc = "parse" /\ Exists(files[VapJson])) =>
          IF MalformedDescriptor(DescriptorDoc) \/ FpsOutOfRange(DescriptorDoc)
          THEN ParseFailed ELSE ParsedValues(DescriptorDoc)]_vars

\* a descriptor with an integer fps and keys the program does not read was
\* parsed: fps is the float 25.0
C14_Witness ==
    /\ pc = "swap"
    /\ InfoOf(DescriptorDoc)["fps"] = JInt(25)
    /\ vapc.fps = 50
    /\ vapc.frame_count = 50
    /\ vapc.rgb_frame = <<504, 0, 504, 667>>

\* C15: in a mask-left run whose parsed descriptor has a frame count or fps
\* that is not positive, the compositor is never invoked, no swapped
\* container, atom file, final candidate or final output exists, and the run
\* goes from the geometry check to Failed with the metadata error.
C15_BadMetadataStopsBeforeCompositor ==
    (vapc.ok /\ (vapc.frame_count <= 0 \/ vapc.fps <= 0)) =>
        /\ args.mode = "mask-left"
        /\ ~Invoked("ffmpeg_swap")
        /\ ~Invoked("mp4edit_remove") /\ ~Invoked("mp4edit_insert")
        /\ \A p \in {SwappedMp4, VapcAtom, NoVapcMp4, FinalTmp, OutMp4, OutDirFinal} :
              ~Exists(files[p])
        /\ pc \in {"swap", "finally", "exited"}
        /\ pc # "swap" => err = ErrMetadata
        /\ pc = "exited" => (exit_code = 1 /\ ~success)

\* a run failed on a descriptor with a negative fps and a positive frame count
C15_Witness ==
    /\ RunFailed
    /\ err = ErrMetadata
    /\ vapc.ok
    /\ vapc.fps < 0
    /\ vapc.frame_count > 0

\* C18: the atom file is a 4-byte big-endian size equal to 8 plus the payload
\* length, the tag vapc and the payload, nothing more; the size field is
\* neither 0 nor 1; scanning the file yields the one tag vapc in one iteration
\* that ends at the last byte.
C18_AtomIsOneVapcBox ==
    AtomBuilt =>
        LET d == files[VapcAtom].data
            payload_len == DumpLen(files[VapcAtom].payload)
        IN  /\ BufLen(d) = 8 + payload_len
            /\ Slice(d, 0, 4) = to_bytes4(8 + payload_len)
            /\ from_bytes_big(Slice(d, 0, 4)) = 8 + payload_len
            /\ from_bytes_big(Slice(d, 0, 4)) \notin {0, 1}
            /\ Slice(d, 4, 8) = TagVapc
            /\ list_top_level_atoms(d) = <<TagVapc>>
            /\ ScanIter(d, 0, <<>>) = [pos |-> BufLen(d), atoms |-> <<TagVapc>>, brk |-> ""]
            /\ ~ScanCond(d, BufLen(d))

\* the atom of a descriptor with extra keys is written; it is longer than 255
\* bytes, so the size field uses more than its last byte
C18_Witness ==
    /\ AtomBuilt
    /\ "orien" \in DOMAIN InfoOf(DescriptorDoc)
    /\ BufLen(files[VapcAtom].data) > 255
    /\ Slice(files[VapcAtom].data, 0, 4)[3] > 0

-----------------------------------------------------------------------------
(***************************************************************************)
(* The order of the stages of a run (Spec).                                *)
(***************************************************************************)
\* the stage, or stages, that may follow each position when no error is raised
StageAfter ==
    [start |-> {"normalize"}, normalize |-> {"normalize", "compile"},
     compile |-> {"encode"}, encode |-> {"encode_ret"},
     encode_ret |-> {"mode_branch"}, mode_branch |-> {"standard", "parse"},
     standard |-> {"finally"}, parse |-> {"swap"}, swap |-> {"swap_gate"},
     swap_gate |-> {"atom"}, atom |-> {"strip"}, strip |-> {"strip_check"},
     strip_check |-> {"insert"}, insert |-> {"gate_valid"},
     gate_valid |-> {"move"}, move |-> {"post_check"},
     post_check |-> {"finally"}, finally |-> {"exited"}, exited |-> {}]
\* how a position is left on an error: die() before the try block, the
\* finally clause inside it
StageOnError ==
    [p \in DOMAIN StageAfter |->
        IF p = "start" THEN {"exited"}
        ELSE IF p \in {"finally", "exited"} THEN {}
        ELSE {"finally"}]
TimesInvoked(tool) == Cardinality({i \in 1..Len(calls) : calls[i].tool = tool})
\* the stages that follow the playability gate of the swapped intermediate
PastSwapGate ==
    pc \in {"atom", "strip", "strip_check", "insert", "gate_valid", "move", "post_check"}

\* C16: every step goes to the next stage in the order Normalizing, Encoding
\* (with its fallback check), ModeBranch, then StandardFinalize or
\* SwapCompositing, StripOldAtom, InsertAtom, FinalValidate, or leaves on an
\* error; only the frame loop of Normalizing repeats, each time on the next
\* frame, so no stage runs twice and each external tool of a stage is invoked
\* at most once.  A standard run takes the standard branch, never parses the
\* descriptor and never invokes the compositor or the box editor; a mask-left
\* run takes the other branch, and is past the playability gate, or has
\* invoked the box editor, only with a swapped intermediate that is
\* structurally valid and was probed with exit status 0.
C16_StagesInOrderOnce ==
    /\ [][pc' \in StageAfter[pc] \cup StageOnError[pc]]_vars
    /\ [][(pc = "normalize" /\ pc' = "normalize") => idx' = idx + 1]_vars
    /\ [][pc' = "standard" => args.mode = "standard"]_vars
    /\ [][pc' = "parse" => args.mode = "mask-left"]_vars
    /\ [](\A t \in {"VapBatch", "ffmpeg_swap", "mp4edit_remove", "mp4edit_insert"} :
             TimesInvoked(t) <= 1)
    /\ [](args.mode = "standard" =>
             /\ vapc = NoVapc
             /\ ~Invoked("ffmpeg_swap")
             /\ ~Invoked("mp4edit_remove")
             /\ ~Invoked("mp4edit_insert"))
    /\ []((PastSwapGate \/ Invoked("mp4edit_remove") \/ Invoked("mp4edit_insert")) =>
             /\ args.mode = "mask-left"
             /\ vapc.ok
             /\ is_valid_mp4(files[SwappedMp4])
             /\ ProbeOk(SwappedMp4))

\* a mask-left run went through every stage to Done
C16_Witness ==
    /\ RunDone
    /\ args.mode = "mask-left"
    /\ Len(png_files) = 2
    /\ TimesInvoked("VapBatch") = 1
    /\ TimesInvoked("ffmpeg_swap") = 1
    /\ TimesInvoked("mp4edit_remove") = 1
    /\ TimesInvoked("mp4edit_insert") = 1
    /\ ProbeOk(SwappedMp4)
    /\ ProbeOk(FinalTmp)

-----------------------------------------------------------------------------
(***************************************************************************)
(* The final destination (Spec).                                           *)
(***************************************************************************)
VapcBoxes(d) ==
    LET tags == list_top_level_atoms(d)
    IN  Cardinality({i \in 1..Len(tags) : tags[i] = TagVapc})
\* the insert call wrote the atom followed by the boxes of its input
InsertAddedAtom(out) == out.data = files[VapcAtom].data \o files[NoVapcMp4].data

\* C17: a mask-left run that reached Done, the insert call having added the
\* atom to the boxes of its input, has at the final destination a container
\* with exactly one top-level vapc box.
C17_DoneHasExactlyOneVapc ==
    (RunDone /\ args.mode = "mask-left" /\ InsertAddedAtom(files[OutMp4])) =>
        VapcBoxes(files[OutMp4].data) = 1

\* a file of the run is at the --output path or inside the directory it names
DestinationWritten ==
    Exists(files[OutMp4]) \/ Exists(files[OutDirVideo]) \/ Exists(files[OutDirFinal])

\* C20: once a file has been copied or moved to the final destination the run
\* carries no error and ends with status 0, and a run that ended in Failed has
\* written nothing there.
C20_DestinationWrittenOnlyOnDone ==
    /\ DestinationWritten => (err = "" /\ (pc = "exited" => exit_code = 0))
    /\ RunFailed => ~DestinationWritten

-----------------------------------------------------------------------------
(***************************************************************************)
(* Termination of the scanner (SpecScan).                                  *)
(***************************************************************************)
\* C19: every iteration of the loop either leaves the loop or appends one tag
\* and moves the cursor forward by at least 8 bytes; an iteration is entered
\* only with 8 bytes left after the cursor, and with fewer the function
\* returns; so the tags collected never number more than the buffer length
\* divided by 8, and the loop runs at most that many iterations before the
\* function returns.
C19_ScanTerminates ==
    /\ [][scan_pc = "loop" =>
            \/ scan_pc' = "ret" /\ atoms' = atoms /\ pos' = pos
            \/ /\ pos + 8 <= BufLen(data)
               /\ scan_pc' = "loop"
               /\ pos' >= pos + 8
               /\ Len(atoms') = Len(atoms) + 1]_vars
    /\ [](8 * Len(atoms) <= BufLen(data))
    /\ []((scan_pc = "loop" /\ pos + 8 > BufLen(data)) => pos >= 8 * Len(atoms))

\* the scan returned at a 64-bit box whose size, 8, is below its header size,
\* after a box closed by the size-0 escape could not be (the escape box is last)
C19_Witness ==
    /\ scan_pc = "ret"
    /\ scan_exit = "break122"
    /\ data = <<Box(12, TagMdat, 4), Chunk(to_bytes4(1) \o TagMoov \o to_bytes8(8), 0)>>
    /\ atoms = <<TagMdat>>
    /\ pos = 12
=============================================================================
